---- MODULE Spec2Model ----
(***************************************************************************)
(* A model of mcporter's runtime (src/runtime.ts, kept in                  *)
(* src/unnamed/part_006): the definition registry, the pool of memoized    *)
(* client promises, McpRuntime.connect / listTools / close /               *)
(* registerDefinition and the createClient connect state machine           *)
(* (streamable HTTP -> SSE fallback, OAuth promotion, auth retry loop).    *)
(*                                                                         *)
(* Promises are modelled by connection records: conns[p].pc is "connected" *)
(* when the promise of createClient is fulfilled and "failed" when it is   *)
(* rejected.  JavaScript runs promise reactions in registration order; the *)
(* creator of a pooled promise registers its `await` synchronously with    *)
(* clients.set, before any other caller can obtain the promise, so the     *)
(* creator's continuation (conns[p].handled) runs before any sharer's.     *)
(***************************************************************************)
EXTENDS Naturals, Sequences, FiniteSets, TLC

\* ---------------------------------------------------------------- bounds
\* createClient invocations per run
MaxConns == 2
\* registerDefinition calls per run
MaxRegs == 1
\* concurrent callers of the runtime
NumThreads == 2
\* callers of the runtime in the Auth specification
AuthCallers == 1

\* ------------------------------------------------------ program constants
\* connectWithAuth: maxAttempts = 3
DefaultMaxOAuthAttempts == 3

Names == {"X", "Y"}
Threads == 1..NumThreads
AuthThreads == 1..AuthCallers

AdHocPath == "<adhoc>"
NoDir == "undefined"
DefaultTokenCacheDir(name) == "~/.mcporter/" \o name

\* the value `undefined` where a ServerDefinition is expected
Undefined == [undef |-> TRUE]

\* ---------------------------------------------------- server definitions
\* A ServerDefinition: hdr says that command.headers holds a template
\* referencing ${VAR}.
StdioY ==
  [name |-> "Y", kind |-> "stdio", auth |-> "none", tokenCacheDir |-> NoDir,
   source |-> [kind |-> "local", path |-> "config/mcporter.json"], hdr |-> FALSE]

AdhocX ==
  [name |-> "X", kind |-> "http", auth |-> "none", tokenCacheDir |-> NoDir,
   source |-> [kind |-> "local", path |-> AdHocPath], hdr |-> TRUE]

LocalX ==
  [name |-> "X", kind |-> "http", auth |-> "none", tokenCacheDir |-> NoDir,
   source |-> [kind |-> "local", path |-> "config/mcporter.json"], hdr |-> FALSE]

ImportX ==
  [name |-> "X", kind |-> "http", auth |-> "oauth", tokenCacheDir |-> "/tokens/x",
   source |-> [kind |-> "import", path |-> ".cursor/mcp.json"], hdr |-> FALSE]

\* definitions handed to registerDefinition
RegDefs == {StdioY, AdhocX, LocalX, ImportX}

\* errors a connect attempt, a wait for the code or finishAuth may end in
ConnectErrors == {"UnauthorizedError", "NetworkError"}

VARIABLES
  definitions,  \* McpRuntime.definitions: name -> ServerDefinition
  clients,      \* McpRuntime.clients: name -> promise (an id of conns)
  conns,        \* the promises createClient returned that are still referenced
                \* or still hold an open transport or OAuth session
  nconn,        \* how many promises createClient has returned so far
  threads,      \* the callers of the runtime and where each stands
  env,          \* whether the process environment sets VAR
  lastWriter,   \* history: per name, the connect whose promotion wrote the
                \* registry entry last (0: registerDefinition or the config)
  regs,         \* history: registerDefinition calls made
  child,        \* a stdio child process and the close of its transport
  facade,       \* the command (call or list) that wraps a runtime call in a
                \* race with a timer
  load,         \* loadServerDefinitions: its inputs and its accumulator
  cfg           \* readConfigFile: the config files, the warnings given

\* the runtime's variables, and the others
runtimeVars == <<definitions, clients, conns, nconn, threads, env, lastWriter, regs>>
others == <<child, facade, load, cfg>>

vars == <<runtimeVars, others>>

ConnIds == DOMAIN conns

\* Map.delete
MapDelete(m, k) == [x \in (DOMAIN m) \ {k} |-> m[x]]

\* Map.set
MapSet(m, k, v) == [x \in (DOMAIN m) \cup {k} |-> IF x = k THEN v ELSE m[x]]

Range(m) == {m[x] : x \in DOMAIN m}

\* ------------------------------------------------------- connect options
\* ConnectOptions; maxOAuthAttempts is {} when undefined
CachedOpts == [skipCache |-> FALSE, maxOAuthAttempts |-> {}]

\* listTools with autoAuthorize = false
NoAuthOpts == [skipCache |-> TRUE, maxOAuthAttempts |-> {0}]

UseCache(opts) == opts.skipCache # TRUE /\ opts.maxOAuthAttempts = {}

\* the maxAttempts connectWithAuth runs with
MaxAttempts(opts) ==
  IF opts.maxOAuthAttempts = {} THEN DefaultMaxOAuthAttempts
  ELSE CHOOSE k \in opts.maxOAuthAttempts : TRUE

IsUnauthorizedError(e) == e = "UnauthorizedError"

\* `typeof transport.finishAuth === 'function'`: finishAuth is optional in the
\* transport type connectWithAuth accepts, so both outcomes are possible
FinishAuthCapability == BOOLEAN

\* variant: the promotion leaves tokenCacheDir as it was
MaybeEnableOAuthKeepDir(d) ==
  IF d.auth = "oauth" THEN Undefined
  ELSE IF d.kind # "http" THEN Undefined
  ELSE IF ~(d.source.kind = "local" /\ d.source.path = AdHocPath) THEN Undefined
  ELSE [d EXCEPT !.auth = "oauth"]

\* variant: the promotion does not look at the source of the definition
MaybeEnableOAuthAnySource(d) ==
  IF d.auth = "oauth" THEN Undefined
  ELSE IF d.kind # "http" THEN Undefined
  ELSE [d EXCEPT !.auth = "oauth",
                 !.tokenCacheDir = IF d.tokenCacheDir # NoDir THEN d.tokenCacheDir
                                   ELSE DefaultTokenCacheDir(d.name)]

\* variant: a definition that already uses OAuth is promoted again
MaybeEnableOAuthAgain(d) ==
  IF d.kind # "http" THEN Undefined
  ELSE IF ~(d.source.kind = "local" /\ d.source.path = AdHocPath) THEN Undefined
  ELSE [d EXCEPT !.auth = "oauth",
                 !.tokenCacheDir = IF d.tokenCacheDir # NoDir THEN d.tokenCacheDir
                                   ELSE DefaultTokenCacheDir(d.name)]

MaybeEnableOAuth(d) ==
  IF d.auth = "oauth" THEN Undefined
  ELSE IF d.kind # "http" THEN Undefined
  ELSE IF ~(d.source.kind = "local" /\ d.source.path = AdHocPath) THEN Undefined
  ELSE [d EXCEPT !.auth = "oauth",
                 !.tokenCacheDir = IF d.tokenCacheDir # NoDir THEN d.tokenCacheDir
                                   ELSE DefaultTokenCacheDir(d.name)]

\* materializeHeaders returns (TRUE) or throws on an unset ${VAR} (FALSE)
MaterializeHeaders(d) == ~d.hdr \/ env

\* ------------------------------------------------- createClient, by steps
Reject(c, e) == [c EXCEPT !.pc = "failed", !.err = e]

\* new StreamableHTTPClientTransport / new SSEClientTransport, then
\* connectWithAuth starts with attempt = 0
BeginAttempt(c, kind) ==
  [c EXCEPT !.pc = kind, !.tkind = kind, !.tstate = "open", !.attempt = 0,
            !.err = "none", !.unsupported = FALSE]

\* variant: the session is established whatever maxOAuthAttempts is
ShouldEstablishOAuthAlways(c) == c.active.auth = "oauth"

ShouldEstablishOAuth(c) ==
  c.active.auth = "oauth" /\ c.opts.maxOAuthAttempts # {0}

\* variant: the transport is built before the headers are resolved
AfterSessionTransportFirst(c) ==
  IF MaterializeHeaders(c.active) THEN BeginAttempt(c, "streamable")
  ELSE Reject([c EXCEPT !.tkind = "streamable", !.tstate = "open"], "MissingEnvVar")

\* variant: the pass starts with the SSE transport
AfterSessionSseFirst(c) ==
  IF MaterializeHeaders(c.active) THEN BeginAttempt(c, "sse")
  ELSE Reject(c, "MissingEnvVar")

\* after the session is settled: resolve the headers, build the streamable
\* transport and start the first attempt
AfterSession(c) ==
  IF MaterializeHeaders(c.active) THEN BeginAttempt(c, "streamable")
  ELSE Reject(c, "MissingEnvVar")

\* one iteration of `while (true)`, up to its first await
EnterPass(c) ==
  LET d == [c EXCEPT !.pass = @ + 1, !.session = "none", !.primaryError = "none"] IN
  IF ShouldEstablishOAuth(d) THEN [d EXCEPT !.pc = "session"] ELSE AfterSession(d)

\* createClient up to its first await
NewConn(def, opts) ==
  LET base == [name |-> def.name, opts |-> opts, def0 |-> def, active |-> def,
               pc |-> "start", pass |-> 0, session |-> "none",
               tkind |-> "none", tstate |-> "none", attempt |-> 0,
               err |-> "none", primaryError |-> "none", handled |-> FALSE, closeLog |-> <<>>,
               tdFail |-> FALSE, evicted |-> FALSE, unsupported |-> FALSE, overlap |-> FALSE]
  IN IF def.kind = "stdio"
     THEN [base EXCEPT !.pc = "stdioConnect", !.tkind = "stdio", !.tstate = "open"]
     ELSE EnterPass(base)

\* an error leaves connectWithAuth towards the catch of its attempt; on the
\* way the catch of attemptConnect closes the streamable transport
Thrown(c, e) ==
  IF c.tkind = "streamable"
  THEN [c EXCEPT !.err = e, !.pc = "primaryCatch", !.tstate = "closed"]
  ELSE [c EXCEPT !.err = e, !.pc = "sseCatch"]

\* variant: the attempts are exhausted one Unauthorized earlier
ConnectWithAuthResultOneLess(c, r) ==
  IF r = "ok"
  THEN [c EXCEPT !.pc = "connected", !.err = "none"]
  ELSE IF ~IsUnauthorizedError(r) \/ c.session = "none" THEN Thrown(c, r)
  ELSE IF c.attempt + 1 >= MaxAttempts(c.opts)
       THEN Thrown([c EXCEPT !.attempt = @ + 1], r)
       ELSE [c EXCEPT !.attempt = @ + 1, !.err = r, !.pc = "waitCode"]

\* connectWithAuth: client.connect(transport) settled with r
ConnectWithAuthResult(c, r) ==
  IF r = "ok"
  THEN [c EXCEPT !.pc = "connected", !.err = "none"]
  ELSE IF ~IsUnauthorizedError(r) \/ c.session = "none" THEN Thrown(c, r)
  ELSE IF c.attempt + 1 > MaxAttempts(c.opts)
       THEN Thrown([c EXCEPT !.attempt = @ + 1], r)
       ELSE [c EXCEPT !.attempt = @ + 1, !.err = r, !.pc = "waitCode"]

\* connectWithAuth: session.waitForAuthorizationCode() settled with r; fa
\* says whether the transport carries finishAuth; without it the error of
\* the connect attempt is thrown again (`throw error`)
WaitCodeResult(c, r, fa) ==
  IF r = "ok"
  THEN IF fa THEN [c EXCEPT !.pc = "finishAuth"]
       ELSE Thrown([c EXCEPT !.unsupported = TRUE], c.err)
  ELSE Thrown(c, r)

\* connectWithAuth: transport.finishAuth(code) settled with r
FinishAuthResult(c, r) ==
  IF r = "ok" THEN [c EXCEPT !.pc = c.tkind] ELSE Thrown(c, r)

CloseSessionIfAny(c) ==
  IF c.session = "none" THEN c ELSE [c EXCEPT !.session = "closed"]

Eligible(d) ==
  d.kind = "http" /\ d.auth # "oauth" /\ d.source.path = AdHocPath

\* variant: the next pass runs with the definition of the first
PromoteKeepActive(c, promoted) == EnterPass(c)

\* `activeDefinition = promoted; this.definitions.set(...); continue`
Promote(c, promoted) == EnterPass([c EXCEPT !.active = promoted])

\* catch (primaryError): the streamable transport was closed by attemptConnect.
\* Yields the connect's next state and the definition to store, if any.
PrimaryCatchResult(c) ==
  LET c2 == IF IsUnauthorizedError(c.err) THEN CloseSessionIfAny(c) ELSE c
      promoted == IF IsUnauthorizedError(c.err) THEN MaybeEnableOAuth(c.active)
                  ELSE Undefined
  IN IF promoted # Undefined /\ c.opts.maxOAuthAttempts # {0}
     THEN [conn |-> Promote(c2, promoted), set |-> promoted]
     ELSE [conn |-> [BeginAttempt(c2, "sse") EXCEPT !.primaryError = c.err],
           set |-> Undefined]

\* variant: the connect fails with the error of the streamable attempt
SseCatchResultPrimaryError(c) ==
  [conn |-> Reject(CloseSessionIfAny([c EXCEPT !.tstate = "closed"]), c.primaryError),
   set |-> Undefined]

\* catch (sseError)
SseCatchResult(c) ==
  LET c1 == CloseSessionIfAny([c EXCEPT !.tstate = "closed"])
      promoted == IF IsUnauthorizedError(c.err) /\ c.opts.maxOAuthAttempts # {0}
                  THEN MaybeEnableOAuth(c.active) ELSE Undefined
  IN IF promoted # Undefined
     THEN [conn |-> Promote(c1, promoted), set |-> promoted]
     ELSE [conn |-> Reject(c1, c.err), set |-> Undefined]

\* ------------------------------------------------ McpRuntime.connect, pool
\* variant: the lookup always misses
ConnectLookupMiss(n, opts) == 0

\* variant: the promise is stored whatever the options are
PoolAfterCreateAlways(n, opts, p) == MapSet(clients, n, p)

\* variant: the failure leaves the entry in the pool
PoolAfterFailureKeep(n) == clients

\* `this.clients.get(normalized)` when the cache is used; 0 stands for a miss
ConnectLookup(n, opts) ==
  IF UseCache(opts) /\ n \in DOMAIN clients THEN clients[n] ELSE 0

\* `if (useCache) this.clients.set(normalized, connection)`
PoolAfterCreate(n, opts, p) ==
  IF UseCache(opts) THEN MapSet(clients, n, p) ELSE clients

\* `catch (error) { this.clients.delete(normalized); throw error; }`
PoolAfterFailure(n) == MapDelete(clients, n)

Settled(p) == conns[p].pc \in {"connected", "failed"}

IdleThread ==
  [op |-> "none", name |-> "none", pc |-> "idle", conn |-> 0, role |-> "none",
   res |-> "none", mark |-> 0, it |-> 0]

Free(t) == threads[t].pc \in {"idle", "done"}

\* callers are interchangeable: a new call is given to the first free one
Picks(t) == Free(t) /\ \A u \in Threads : u < t => ~Free(u)

\* a connection still holds a resource while a transport or session is open
Released(c) == c.tstate # "open" /\ c.session # "open"

\* the calls of close that are waiting for, or tearing down, connection p
Closers(ths, p) ==
  {t \in Threads : /\ ths[t].op \in {"close", "closeAll"} /\ ths[t].conn = p
                   /\ ths[t].pc \in {"await", "tClient", "tTransport", "tSession"}}

\* what is left of cs: the promises the pool cl or a caller of ths refers to,
\* and the settled ones that still hold an open transport or session; an
\* entry whose name was deleted from the pool is marked evicted, and one that
\* two calls of close hold at once is marked overlap (history)
Collect(cs, cl, ths) ==
  LET refd == Range(cl) \cup {ths[t].conn : t \in Threads}
      keep == {p \in DOMAIN cs : p \in refd \/ ~Released(cs[p])} IN
  [p \in keep |->
     [cs[p] EXCEPT !.evicted = @ \/ (p \in Range(clients) /\ cs[p].name \notin DOMAIN cl),
                   !.overlap = @ \/ Cardinality(Closers(ths, p)) > 1]]

\* connect(server, options) up to its first await, called by thread t for `op`
ConnectBody(t, n, opts, op) ==
  LET ex == ConnectLookup(n, opts)
      new == nconn + 1
      call == [IdleThread EXCEPT !.op = op, !.name = n] IN
  /\ Picks(t)
  /\ IF ex # 0
     THEN /\ threads' = [threads EXCEPT ![t] =
                 [call EXCEPT !.pc = "await", !.conn = ex, !.role = "sharer"]]
          /\ clients' = clients
          /\ nconn' = nconn
          /\ conns' = Collect(conns, clients', threads')
     ELSE IF n \notin DOMAIN definitions
     THEN /\ threads' = [threads EXCEPT ![t] =
                 [call EXCEPT !.pc = "done", !.res = "unknown"]]
          /\ clients' = clients
          /\ nconn' = nconn
          /\ conns' = Collect(conns, clients', threads')
     ELSE /\ nconn < MaxConns
          /\ nconn' = new
          /\ clients' = PoolAfterCreate(n, opts, new)
          /\ threads' = [threads EXCEPT ![t] =
                 [call EXCEPT !.pc = "await", !.conn = new,
                              !.role = IF UseCache(opts) THEN "creator" ELSE "owner"]]
          /\ conns' = Collect(MapSet(conns, new, NewConn(definitions[n], opts)),
                              clients', threads')
  /\ UNCHANGED <<definitions, env, lastWriter, regs>>

Connect(t, n, opts, op) == ConnectBody(t, n, opts, op) /\ UNCHANGED others

\* connect(name)
StartConnect(t, n) == Connect(t, n, CachedOpts, "connect")

\* listTools(name, {autoAuthorize: false})
StartListTools(t, n) == Connect(t, n, NoAuthOpts, "list")

\* the caller's continuation once the promise it awaits is settled
ConnectSettled(t) ==
  LET th == threads[t]
      p == th.conn
      ok == conns[p].pc = "connected" IN
  /\ th.pc = "await" /\ th.op \in {"connect", "list", "call"}
  /\ Settled(p)
  /\ th.role = "sharer" => conns[p].handled
  /\ clients' = IF th.role = "creator" /\ ~ok THEN PoolAfterFailure(th.name) ELSE clients
  /\ threads' = [threads EXCEPT ![t] =
        IF ~ok THEN [th EXCEPT !.pc = "done", !.res = "failed"]
        ELSE IF th.op = "list" THEN [th EXCEPT !.pc = "listing"]
        ELSE IF th.op = "call" THEN [th EXCEPT !.pc = "calling"]
        ELSE [th EXCEPT !.pc = "done", !.res = "ok"]]
  /\ conns' = Collect(IF th.role = "creator" THEN [conns EXCEPT ![p].handled = TRUE]
                      ELSE conns, clients', threads')
  /\ UNCHANGED <<definitions, nconn, env, lastWriter, regs>>
  /\ UNCHANGED others

\* listTools: context.client.listTools(...) returns or throws
ListToolsResponse(t, ok) ==
  /\ threads[t].pc = "listing"
  /\ threads' = [threads EXCEPT ![t].pc = "tClient",
                                ![t].res = IF ok THEN "ok" ELSE "listfail"]
  /\ UNCHANGED <<definitions, clients, conns, nconn, env, lastWriter, regs>>
  /\ UNCHANGED others

\* callTool, and listTools with autoAuthorize on: the request made on the
\* pooled client returns or throws
CallToolResponse(t, ok) ==
  /\ threads[t].pc = "calling"
  /\ threads' = [threads EXCEPT ![t].pc = "done",
                                ![t].res = IF ok THEN "ok" ELSE "toolfail"]
  /\ UNCHANGED <<definitions, clients, conns, nconn, env, lastWriter, regs>>
  /\ UNCHANGED others

\* ------------------------------------------------------- McpRuntime.close
Min(S) == CHOOSE x \in S : \A y \in S : x <= y

\* Map iteration: entries are visited in insertion order, and pooled promises
\* are inserted in creation order; `it` is the last entry visited
NextEntry(cl, it) ==
  LET later == {p \in Range(cl) : p > it} IN
  IF later = {} THEN 0 ELSE Min(later)

\* the head of `for (const [name, promise] of this.clients.entries())`
LoopHead(th, cl) ==
  LET nx == NextEntry(cl, th.it) IN
  IF nx = 0 THEN [th EXCEPT !.pc = "done", !.res = "ok"]
  ELSE [th EXCEPT !.pc = "await", !.conn = nx, !.it = nx, !.name = conns[nx].name]

\* close(server): `await this.clients.get(normalized)`
StartCloseBody(t, n) ==
  LET call == [IdleThread EXCEPT !.op = "close", !.name = n, !.role = "closer"] IN
  /\ Picks(t)
  /\ threads' = [threads EXCEPT ![t] =
        IF n \in DOMAIN clients
        THEN [call EXCEPT !.pc = "await", !.conn = clients[n]]
        ELSE [call EXCEPT !.pc = "done", !.res = "ok"]]
  /\ conns' = Collect(conns, clients, threads')
  /\ UNCHANGED <<definitions, clients, nconn, env, lastWriter, regs>>

StartClose(t, n) == StartCloseBody(t, n) /\ UNCHANGED others

\* close(): the loop starts
StartCloseAll(t) ==
  LET call == [IdleThread EXCEPT !.op = "closeAll", !.role = "closer",
                                 !.mark = nconn] IN
  /\ Picks(t)
  /\ threads' = [threads EXCEPT ![t] = LoopHead(call, clients)]
  /\ conns' = Collect(conns, clients, threads')
  /\ UNCHANGED <<definitions, clients, nconn, env, lastWriter, regs>>
  /\ UNCHANGED others

\* what close does when the promise it awaits is rejected: close(server) lets
\* the error out; close() runs `finally { this.clients.delete(name) }` first
CloseAfterRejection(th) ==
  [thread |-> [th EXCEPT !.pc = "done", !.res = "raised"],
   pool |-> IF th.op = "closeAll" THEN MapDelete(clients, th.name) ELSE clients]

\* the continuation of `await promise` in close(server) and close()
CloseSettled(t) ==
  LET th == threads[t]
      p == th.conn
      out == CloseAfterRejection(th) IN
  /\ th.pc = "await" /\ th.op \in {"close", "closeAll"}
  /\ Settled(p) /\ conns[p].handled
  /\ IF conns[p].pc = "connected"
     THEN /\ threads' = [threads EXCEPT ![t].pc = "tClient"]
          /\ clients' = clients
     ELSE /\ threads' = [threads EXCEPT ![t] = out.thread]
          /\ clients' = out.pool
  /\ conns' = Collect(conns, clients', threads')
  /\ UNCHANGED <<definitions, nconn, env, lastWriter, regs>>
  /\ UNCHANGED others

\* variant: a failing client.close() ends the teardown
TeardownClientAbort(t, ok) ==
  LET p == threads[t].conn IN
  /\ threads[t].pc = "tClient"
  /\ conns' = [conns EXCEPT ![p].closeLog = Append(@, "client"),
                            ![p].tdFail = @ \/ ~ok]
  /\ threads' = [threads EXCEPT ![t].pc = IF ok THEN "tTransport" ELSE "done"]
  /\ UNCHANGED <<definitions, clients, nconn, env, lastWriter, regs>>
  /\ UNCHANGED others

\* `await context.client.close().catch(() => {})`
TeardownClient(t, ok) ==
  LET p == threads[t].conn IN
  /\ threads[t].pc = "tClient"
  /\ conns' = [conns EXCEPT ![p].closeLog = Append(@, "client"),
                            ![p].tdFail = @ \/ ~ok]
  /\ threads' = [threads EXCEPT ![t].pc = "tTransport"]
  /\ UNCHANGED <<definitions, clients, nconn, env, lastWriter, regs>>
  /\ UNCHANGED others

\* `await closeTransportAndWait(this.logger, context.transport).catch(() => {})`
TeardownTransport(t, ok) ==
  LET p == threads[t].conn IN
  /\ threads[t].pc = "tTransport"
  /\ conns' = [conns EXCEPT ![p].closeLog = Append(@, "transport"),
                            ![p].tstate = "closed",
                            ![p].tdFail = @ \/ ~ok]
  /\ threads' = [threads EXCEPT ![t].pc = "tSession"]
  /\ UNCHANGED <<definitions, clients, nconn, env, lastWriter, regs>>
  /\ UNCHANGED others

\* variant: the teardown leaves the entry in the pool
PoolAfterTeardownKeep(th) == clients

\* the pool once the teardown of an entry is over
PoolAfterTeardown(th) ==
  IF th.op \in {"close", "closeAll"} THEN MapDelete(clients, th.name) ELSE clients

\* `await context.oauthSession?.close().catch(() => {})` and what follows it
TeardownSession(t, ok) ==
  LET th == threads[t]
      p == th.conn
      has == conns[p].session # "none" IN
  /\ th.pc = "tSession"
  /\ has \/ ok
  /\ clients' = PoolAfterTeardown(th)
  /\ threads' = [threads EXCEPT ![t] =
        IF th.op = "closeAll" THEN LoopHead(th, clients')
        ELSE IF th.op = "close"
        THEN [th EXCEPT !.pc = "done", !.res = "ok", !.mark = nconn]
        ELSE [th EXCEPT !.pc = "done"]]
  /\ conns' = Collect(IF has
                      THEN [conns EXCEPT ![p].closeLog = Append(@, "session"),
                                         ![p].session = "closed",
                                         ![p].tdFail = @ \/ ~ok]
                      ELSE conns, clients', threads')
  /\ UNCHANGED <<definitions, nconn, env, lastWriter, regs>>
  /\ UNCHANGED others

\* ---------------------------------------------------- registerDefinition
RegisterDefinition(d, overwrite) ==
  /\ regs < MaxRegs
  /\ regs' = regs + 1
  /\ IF ~overwrite /\ d.name \in DOMAIN definitions
     THEN UNCHANGED <<definitions, clients, conns, lastWriter>>
     ELSE /\ definitions' = MapSet(definitions, d.name, d)
          /\ clients' = MapDelete(clients, d.name)
          /\ lastWriter' = [lastWriter EXCEPT ![d.name] = 0]
          /\ conns' = Collect(conns, clients', threads)
  /\ UNCHANGED <<nconn, threads, env>>
  /\ UNCHANGED others

\* ------------------------------------------- createClient, its await points
ConnStep(p, c) ==
  /\ conns' = [conns EXCEPT ![p] = c]
  /\ UNCHANGED <<definitions, clients, nconn, threads, env, lastWriter, regs>>
  /\ UNCHANGED others

\* `await createOAuthSession(activeDefinition, this.logger)`
CreateOAuthSession(p, ok) ==
  /\ conns[p].pc = "session"
  /\ ConnStep(p, IF ok THEN AfterSession([conns[p] EXCEPT !.session = "open"])
                 ELSE Reject(conns[p], "OAuthSessionError"))

\* stdio branch: `await client.connect(transport)`; nothing closes the transport
StdioConnectResult(c, r) ==
  IF r = "ok" THEN [c EXCEPT !.pc = "connected"] ELSE Reject(c, r)

ClientConnect(p, r) ==
  /\ conns[p].pc \in {"stdioConnect", "streamable", "sse"}
  /\ ConnStep(p, IF conns[p].pc = "stdioConnect" THEN StdioConnectResult(conns[p], r)
                 ELSE ConnectWithAuthResult(conns[p], r))

WaitForAuthorizationCode(p, r, fa) ==
  /\ conns[p].pc = "waitCode"
  /\ ConnStep(p, WaitCodeResult(conns[p], r, fa))

FinishAuth(p, r) ==
  /\ conns[p].pc = "finishAuth"
  /\ ConnStep(p, FinishAuthResult(conns[p], r))

\* the catch handlers of createClient, with `this.definitions.set` on promotion
CatchHandler(p) ==
  LET c == conns[p]
      out == IF c.pc = "primaryCatch" THEN PrimaryCatchResult(c) ELSE SseCatchResult(c) IN
  /\ c.pc \in {"primaryCatch", "sseCatch"}
  /\ conns' = [conns EXCEPT ![p] = out.conn]
  /\ IF out.set # Undefined
     THEN /\ definitions' = MapSet(definitions, c.name, out.set)
          /\ lastWriter' = [lastWriter EXCEPT ![c.name] = p]
     ELSE UNCHANGED <<definitions, lastWriter>>
  /\ UNCHANGED <<clients, nconn, threads, env, regs>>
  /\ UNCHANGED others

\* the process environment changes between calls
SetEnv ==
  /\ env' = ~env
  /\ UNCHANGED <<definitions, clients, conns, nconn, threads, lastWriter, regs>>
  /\ UNCHANGED others

\* ------------------------------------------------------------------ specs
Outcomes == {"ok"} \cup ConnectErrors

\* the steps of one createClient that every kind of definition can take
ConnNext ==
  \/ \E p \in ConnIds, r \in Outcomes : ClientConnect(p, r)
  \/ \E p \in ConnIds : CatchHandler(p)

\* the calls and continuations of the callers in T, with definitions from D
CallerNext(T, D) ==
  \/ \E t \in T, n \in Names : StartConnect(t, n)
  \/ \E t \in T, n \in Names : StartListTools(t, n)
  \/ \E t \in T : ConnectSettled(t)
  \/ \E t \in T, ok \in BOOLEAN : ListToolsResponse(t, ok)
  \/ \E t \in T, n \in Names : StartClose(t, n)
  \/ \E t \in T : StartCloseAll(t)
  \/ \E t \in T : CloseSettled(t)
  \/ \E t \in T, ok \in BOOLEAN : TeardownClient(t, ok)
  \/ \E t \in T, ok \in BOOLEAN : TeardownTransport(t, ok)
  \/ \E t \in T, ok \in BOOLEAN : TeardownSession(t, ok)
  \/ \E d \in D, ow \in BOOLEAN : RegisterDefinition(d, ow)

InitRuntime ==
  /\ clients = <<>>
  /\ conns = <<>>
  /\ nconn = 0
  /\ threads = [t \in Threads |-> IdleThread]
  /\ lastWriter = [n \in Names |-> 0]
  /\ regs = 0

\* no child process is followed
NoChild == [pc |-> "none"]

\* no command is running
NoFacade ==
  [pc |-> "idle", kind |-> "none", name |-> "none", t |-> 0, u |-> 0,
   res |-> "none", closed |-> FALSE]

\* no configuration is being loaded
NoLoad == [pc |-> "none"]

\* no config file is followed
NoConfig == [pc |-> "none"]

InitOthers == child = NoChild /\ facade = NoFacade /\ load = NoLoad /\ cfg = NoConfig

\* Pool: concurrent callers over configured servers (no OAuth, no ad-hoc)
PoolDefs == {StdioY, LocalX}

InitPool ==
  /\ InitRuntime /\ InitOthers
  /\ definitions = ("X" :> LocalX)
  /\ env = TRUE

NextPool == CallerNext(Threads, PoolDefs) \/ ConnNext

SpecPool == InitPool /\ [][NextPool]_vars

\* Auth: one caller at a time over every kind of definition
InitAuth ==
  /\ InitRuntime /\ InitOthers
  /\ definitions = ("X" :> AdhocX)
  /\ env \in BOOLEAN

NextAuth ==
  \/ CallerNext(AuthThreads, RegDefs)
  \/ ConnNext
  \/ \E p \in ConnIds, ok \in BOOLEAN : CreateOAuthSession(p, ok)
  \/ \E p \in ConnIds, r \in Outcomes, fa \in FinishAuthCapability :
        WaitForAuthorizationCode(p, r, fa)
  \/ \E p \in ConnIds, r \in Outcomes : FinishAuth(p, r)
  \/ SetEnv

SpecAuth == InitAuth /\ [][NextAuth]_vars

\* Http: one caller connecting to one HTTP definition, with every step of
\* createClient and connectWithAuth.  A second error that is not Unauthorized
\* tells the error of the SSE attempt from the error of the streamable one.
\* a configured definition with OAuth and a header that names ${VAR}
OAuthHeaderX ==
  [name |-> "X", kind |-> "http", auth |-> "oauth", tokenCacheDir |-> "/tokens/x",
   source |-> [kind |-> "local", path |-> "config/mcporter.json"], hdr |-> TRUE]

HttpDefs == {AdhocX, LocalX, ImportX, OAuthHeaderX}

HttpOutcomes == Outcomes \cup {"ProtocolError"}

InitHttp ==
  /\ InitRuntime /\ InitOthers
  /\ \E d \in HttpDefs : definitions = ("X" :> d)
  /\ env \in BOOLEAN

NextHttp ==
  \/ \E t \in AuthThreads, n \in Names : StartConnect(t, n)
  \/ \E t \in AuthThreads, n \in Names : StartListTools(t, n)
  \/ \E t \in AuthThreads : ConnectSettled(t)
  \/ \E t \in AuthThreads, ok \in BOOLEAN : ListToolsResponse(t, ok)
  \/ \E t \in AuthThreads, ok \in BOOLEAN : TeardownClient(t, ok)
  \/ \E t \in AuthThreads, ok \in BOOLEAN : TeardownTransport(t, ok)
  \/ \E t \in AuthThreads, ok \in BOOLEAN : TeardownSession(t, ok)
  \/ \E p \in ConnIds, ok \in BOOLEAN : CreateOAuthSession(p, ok)
  \/ \E p \in ConnIds, r \in HttpOutcomes : ClientConnect(p, r)
  \/ \E p \in ConnIds, r \in Outcomes, fa \in FinishAuthCapability :
        WaitForAuthorizationCode(p, r, fa)
  \/ \E p \in ConnIds, r \in Outcomes : FinishAuth(p, r)
  \/ \E p \in ConnIds : CatchHandler(p)

SpecHttp == InitHttp /\ [][NextHttp]_vars

\* ------------------------------------- stdio transport: close and child
\* closeTransportAndWait on a StdioClientTransport, with the patched close of
\* sdk-patches.ts, for one child process.  child.pc is where the close
\* stands: "open" (not called), "pSoft"/"pTerm"/"pKill" (the waits of
\* patchedClose), "rWait" (the wait of closeTransportAndWait), "tree300"/
\* "tree700"/"tree500" (the waits of ensureProcessTreeTerminated),
\* "collect300"/"collect700"/"collectKill" (its waits for the list of pids),
\* "returned".
ExitCodes == {"0", "1"}

\* the exit code of a child that has not exited or was ended by a signal
NoCode == "null"

\* a child just started by patchedStart: the exit listener is attached and
\* the buffer of stderr chunks is empty.  desc is the one descendant the
\* child may have spawned ("none", "alive", "dead"), dsent the signals sent
\* to it, targets the pids ensureProcessTreeTerminated holds
NewChild(ignoresStdin, ignoresTerm, unkillable, logs, desc, descIgnoresTerm) ==
  [pc |-> "open", alive |-> TRUE, exitCode |-> NoCode,
   desc |-> desc, descIgnoresTerm |-> descIgnoresTerm, dsent |-> <<>>,
   targets |-> {},
   ignoresStdin |-> ignoresStdin, ignoresTerm |-> ignoresTerm,
   unkillable |-> unkillable, logsEnabled |-> logs,
   chunks |-> FALSE, listener |-> TRUE, metaCode |-> NoCode,
   stdinClosed |-> FALSE, sent |-> <<>>, printed |-> FALSE, warned |-> 0,
   codeAtClose |-> NoCode]

Sent(c, sig) == \E i \in DOMAIN c.sent : c.sent[i] = sig

\* the child writes to stderr while the data listener is attached
ChildWrites ==
  /\ child.pc = "open" /\ child.alive
  /\ child' = [child EXCEPT !.chunks = TRUE]
  /\ UNCHANGED <<runtimeVars, facade, load, cfg>>

\* the process ends with `code`: the 'exit' listener of patchedStart, if it
\* is still attached, records the code
Exit(c, code) ==
  [c EXCEPT !.alive = FALSE, !.exitCode = code,
            !.metaCode = IF c.listener THEN code ELSE @]

\* the child exits: by itself before the close, on the end of its stdin, or
\* on SIGTERM (with a code from its handler, or ended by the signal)
ChildExits(code) ==
  /\ child.pc # "none" /\ child.alive
  /\ \/ child.pc = "open" /\ code \in ExitCodes
     \/ child.stdinClosed /\ ~child.ignoresStdin /\ code \in ExitCodes
     \/ Sent(child, "SIGTERM") /\ ~child.ignoresTerm
  /\ child' = Exit(child, code)
  /\ UNCHANGED <<runtimeVars, facade, load, cfg>>

\* SIGKILL ends the process
ChildKilled ==
  /\ child.pc # "none" /\ child.alive
  /\ Sent(child, "SIGKILL") /\ ~child.unkillable
  /\ child' = Exit(child, NoCode)
  /\ UNCHANGED <<runtimeVars, facade, load, cfg>>

\* closeTransportAndWait calls transport.close(): patchedClose destroys the
\* stderr stream and the child's streams and removes all listeners of the
\* child, then waits for the child
StartTransportClose ==
  /\ child.pc = "open"
  /\ child' = [child EXCEPT !.pc = "pSoft", !.stdinClosed = TRUE, !.listener = FALSE]
  /\ UNCHANGED <<runtimeVars, facade, load, cfg>>

\* waitForChildClose resolves on exit, close, error and on its timer alike;
\* it never rejects
WaitForChildCloseRejects == FALSE

\* `await waitForChildClose(child, 700).then(() => true, () => false)`
ExitedAfterWait == ~WaitForChildCloseRejects

\* (codeAtClose, history: the code the child had exited with by then)
\* the end of patchedClose: the buffered stderr is printed under its heading
\* when STDIO_LOGS_ENABLED or the recorded code is a number other than 0
ShouldPrint(c) == c.logsEnabled \/ (c.metaCode \in ExitCodes /\ c.metaCode # "0")

FinishPatchedClose(c) ==
  [c EXCEPT !.pc = "rWait", !.printed = ShouldPrint(c) /\ c.chunks,
            !.codeAtClose = c.exitCode]

\* patchedClose after one of its waits
AfterPatchedWait(c) ==
  IF c.pc = "pSoft" /\ ~ExitedAfterWait
  THEN [c EXCEPT !.pc = "pTerm", !.sent = Append(@, "SIGTERM")]
  ELSE IF c.pc = "pTerm" /\ ~ExitedAfterWait
  THEN [c EXCEPT !.pc = "pKill", !.sent = Append(@, "SIGKILL")]
  ELSE FinishPatchedClose(c)

PatchedWaitDone ==
  /\ child.pc \in {"pSoft", "pTerm", "pKill"}
  /\ child' = AfterPatchedWait(child)
  /\ UNCHANGED <<runtimeVars, facade, load, cfg>>

\* the descendant exits: once its parent is gone, on SIGTERM unless it
\* ignores the signal, or on SIGKILL
DescendantExits ==
  /\ child.pc # "none" /\ child.desc = "alive"
  /\ \/ ~child.alive
     \/ (\E i \in DOMAIN child.dsent : child.dsent[i] = "SIGTERM") /\ ~child.descIgnoresTerm
     \/ \E i \in DOMAIN child.dsent : child.dsent[i] = "SIGKILL"
  /\ child' = [child EXCEPT !.desc = "dead"]
  /\ UNCHANGED <<runtimeVars, facade, load, cfg>>

\* closeTransportAndWait after `waitForChildClose(childProcess, 1_000)`:
\* ensureProcessTreeTerminated returns at once when the root pid is not
\* alive, and else asks for the pids of the tree
RuntimeWaitDone ==
  /\ child.pc = "rWait"
  /\ child' = [child EXCEPT !.pc = IF child.alive THEN "collect300" ELSE "returned"]
  /\ UNCHANGED <<runtimeVars, facade, load, cfg>>

\* collectProcessTreePids: the descendants `ps` shows under the root, none
\* when the root is not alive, and then the root
CollectProcessTreePids(c) ==
  (IF c.alive /\ c.desc = "alive" THEN {"desc"} ELSE {}) \cup {"root"}

\* isProcessAlive(pid)
IsProcessAlive(c, pid) == IF pid = "root" THEN c.alive ELSE c.desc = "alive"

\* waitForTreeExit: every pid of the list is gone
TreeExited(c) == \A pid \in c.targets : ~IsProcessAlive(c, pid)

\* sendSignalToTargets
SendSignalToTargets(c, pids, sig) ==
  [c EXCEPT !.sent = IF "root" \in pids THEN Append(@, sig) ELSE @,
            !.dsent = IF "desc" \in pids THEN Append(@, sig) ELSE @]

\* ensureProcessTreeTerminated after `await collectProcessTreePids(rootPid)`:
\* the list is taken before the waits of 300 ms and of 700 ms, and before
\* SIGKILL, which goes to the pids just listed
AfterCollect(c) ==
  LET pids == CollectProcessTreePids(c) IN
  IF c.pc = "collect300"
  THEN [c EXCEPT !.pc = "tree300", !.targets = pids]
  ELSE IF c.pc = "collect700"
  THEN [c EXCEPT !.pc = "tree700", !.targets = pids]
  ELSE [SendSignalToTargets(c, pids, "SIGKILL") EXCEPT !.pc = "tree500", !.targets = pids]

TreeCollectDone ==
  /\ child.pc \in {"collect300", "collect700", "collectKill"}
  /\ child' = AfterCollect(child)
  /\ UNCHANGED <<runtimeVars, facade, load, cfg>>

\* variant: the escalation ends after the wait that follows SIGTERM
AfterTreeWaitNoKill(c) ==
  IF TreeExited(c) THEN [c EXCEPT !.pc = "returned"]
  ELSE IF c.pc = "tree300"
  THEN [SendSignalToTargets(c, c.targets, "SIGTERM") EXCEPT !.pc = "collect700"]
  ELSE [c EXCEPT !.pc = "returned", !.warned = @ + 1]

\* ensureProcessTreeTerminated after waitForTreeExit, which returns whether
\* the pids of the list are gone
AfterTreeWait(c) ==
  IF TreeExited(c) THEN [c EXCEPT !.pc = "returned"]
  ELSE IF c.pc = "tree300"
  THEN [SendSignalToTargets(c, c.targets, "SIGTERM") EXCEPT !.pc = "collect700"]
  ELSE IF c.pc = "tree700"
  THEN [c EXCEPT !.pc = "collectKill"]
  ELSE [c EXCEPT !.pc = "returned", !.warned = @ + 1]

\* a pid of the list that SIGKILL can end
Killable(c, pid) == pid = "desc" \/ ~c.unkillable

\* the kernel ends a process that can be killed within the 500 ms that
\* follow SIGKILL, so the last wait does not time out on such a process
TreeWaitDone ==
  /\ child.pc \in {"tree300", "tree700", "tree500"}
  /\ child.pc = "tree500" =>
        \A pid \in child.targets : Killable(child, pid) => ~IsProcessAlive(child, pid)
  /\ child' = AfterTreeWait(child)
  /\ UNCHANGED <<runtimeVars, facade, load, cfg>>

InitStdio ==
  /\ InitRuntime
  /\ definitions = ("Y" :> StdioY)
  /\ env = TRUE
  /\ facade = NoFacade /\ load = NoLoad /\ cfg = NoConfig
  /\ \E a, b, c, d, e \in BOOLEAN, ds \in {"none", "alive"} :
        child = NewChild(a, b, c, d, ds, e)

NextStdio ==
  \/ ChildWrites
  \/ \E code \in ExitCodes \cup {NoCode} : ChildExits(code)
  \/ ChildKilled
  \/ DescendantExits
  \/ StartTransportClose
  \/ PatchedWaitDone
  \/ RuntimeWaitDone
  \/ TreeCollectDone
  \/ TreeWaitDone

SpecStdio == InitStdio /\ [][NextStdio]_vars

\* the timers of the close go off, and the kernel delivers SIGKILL
SpecStdioFair ==
  /\ SpecStdio
  /\ WF_vars(PatchedWaitDone) /\ WF_vars(RuntimeWaitDone)
  /\ WF_vars(TreeCollectDone) /\ WF_vars(TreeWaitDone)
  /\ WF_vars(ChildKilled) /\ WF_vars(DescendantExits)

\* ------------------------------------- the commands: a call under a timer
\* facade.pc: "waiting" (racing the runtime call of thread t with the timer),
\* "closing" (the timer went off, close(server) runs on thread u), "returned",
\* "failed" (with the error in res)
FacadeIdle == facade.pc \in {"idle", "returned", "failed"}

\* attemptCall: `withTimeout(runtime.callTool(server, tool, { args }), timeoutMs)`
AttemptCall(t, n) ==
  /\ FacadeIdle
  /\ ConnectBody(t, n, CachedOpts, "call")
  /\ facade' = [NoFacade EXCEPT !.pc = "waiting", !.kind = "call", !.name = n, !.t = t]
  /\ UNCHANGED <<child, load, cfg>>

\* handleList: `withTimeout(runtime.listTools(name, { autoAuthorize: false }),
\* perServerTimeoutMs)` for every server, `withTimeout(runtime.listTools(
\* target, { includeSchema: true }), timeoutMs)` for one
HandleList(t, n, single) ==
  /\ FacadeIdle
  /\ IF single THEN ConnectBody(t, n, CachedOpts, "call")
     ELSE ConnectBody(t, n, NoAuthOpts, "list")
  /\ facade' = [NoFacade EXCEPT !.pc = "waiting", !.kind = "list", !.name = n, !.t = t]
  /\ UNCHANGED <<child, load, cfg>>

\* the runtime call settles before the timer goes off
FacadeSettled ==
  LET r == threads[facade.t].res IN
  /\ facade.pc = "waiting" /\ threads[facade.t].pc = "done"
  /\ facade' = [facade EXCEPT !.pc = IF r = "ok" THEN "returned" ELSE "failed",
                              !.res = r]
  /\ UNCHANGED <<runtimeVars, child, load, cfg>>

\* withTimeout rejects with 'Timeout' first; the catch of attemptCall runs
\* `await runtime.close(server).catch(() => {})` on thread u
AttemptCallTimeout(u) ==
  /\ facade.pc = "waiting" /\ facade.kind = "call"
  /\ threads[facade.t].pc # "done"
  /\ StartCloseBody(u, facade.name)
  /\ facade' = [facade EXCEPT !.pc = "closing", !.u = u, !.closed = TRUE]
  /\ UNCHANGED <<child, load, cfg>>

\* close(server) has returned or has thrown: attemptCall throws its
\* "timed out" error
AttemptCallFails ==
  /\ facade.pc = "closing" /\ threads[facade.u].pc = "done"
  /\ facade' = [facade EXCEPT !.pc = "failed", !.res = "timeout"]
  /\ UNCHANGED <<runtimeVars, child, load, cfg>>

\* withTimeout rejects with 'Timeout' first; the catch blocks of handleList
\* record or print the error
HandleListTimeout ==
  /\ facade.pc = "waiting" /\ facade.kind = "list"
  /\ threads[facade.t].pc # "done"
  /\ facade' = [facade EXCEPT !.pc = "failed", !.res = "timeout"]
  /\ UNCHANGED <<runtimeVars, child, load, cfg>>

InitFacade ==
  /\ InitRuntime /\ InitOthers
  /\ definitions = ("X" :> AdhocX)
  /\ env = TRUE

\* the steps the event loop makes by itself
FacadeContinues ==
  \/ \E t \in Threads : ConnectSettled(t)
  \/ \E t \in Threads : CloseSettled(t)
  \/ \E t \in Threads, ok \in BOOLEAN : TeardownClient(t, ok)
  \/ \E t \in Threads, ok \in BOOLEAN : TeardownTransport(t, ok)
  \/ \E t \in Threads, ok \in BOOLEAN : TeardownSession(t, ok)
  \/ \E p \in ConnIds : CatchHandler(p)
  \/ FacadeSettled
  \/ AttemptCallFails

\* the steps that wait for the server, and are ended by the request timeout
\* of the client library when the server stays silent
ServerAnswers ==
  \/ \E p \in ConnIds, r \in Outcomes : ClientConnect(p, r)
  \/ \E p \in ConnIds, ok \in BOOLEAN : CreateOAuthSession(p, ok)
  \/ \E p \in ConnIds, r \in Outcomes : FinishAuth(p, r)
  \/ \E t \in Threads, ok \in BOOLEAN : ListToolsResponse(t, ok)
  \/ \E t \in Threads, ok \in BOOLEAN : CallToolResponse(t, ok)

\* session.waitForAuthorizationCode() blocks until the browser calls back
AuthorizationCodeArrives ==
  \E p \in ConnIds, r \in Outcomes, fa \in FinishAuthCapability :
     WaitForAuthorizationCode(p, r, fa)

NextFacade ==
  \/ \E t \in Threads, n \in Names : AttemptCall(t, n)
  \/ \E t \in Threads, n \in Names, single \in BOOLEAN : HandleList(t, n, single)
  \/ \E u \in Threads : AttemptCallTimeout(u)
  \/ HandleListTimeout
  \/ FacadeContinues
  \/ ServerAnswers
  \/ AuthorizationCodeArrives

\* the event loop runs every continuation that is ready, and the client
\* library ends every request; nothing bounds the wait for the authorization
\* code, which lasts until the browser calls back
SpecFacade ==
  /\ InitFacade /\ [][NextFacade]_vars
  /\ WF_vars(FacadeContinues) /\ WF_vars(ServerAnswers)

\* ------------------------------------------------- loadServerDefinitions
\* bound: how many entries `imports` of the config may list
MaxImports == 3
\* bound: how many candidate files pathsForImport gives for an import kind
MaxPaths == 2

\* names that the config and the imported files define
ServerNames == {"a", "b"}

\* the default import order (its first three kinds)
DEFAULT_IMPORTS == <<"cursor", "claude-code", "codex">>

ImportKinds == Range(DEFAULT_IMPORTS)

\* the path of the config file itself, and the candidate paths of an import
\* kind in the order pathsForImport gives them
ConfigPath == <<"config", 0>>

PathsForImport(kind) == [i \in 1..MaxPaths |-> <<kind, i>>]

AllPaths == ImportKinds \X (1..MaxPaths)

\* config.imports as written: absent, or a list of import kinds
ConfiguredImports ==
  {[present |-> FALSE, list |-> <<>>]} \cup
  {[present |-> TRUE, list |-> l] :
      l \in UNION {[1..n -> ImportKinds] : n \in 0..MaxImports}}

\* variant: a configured list is used as it is
EffectiveImportsAsListed(ci) ==
  IF ~ci.present THEN DEFAULT_IMPORTS ELSE ci.list

\* the imports that are read, in order: the configured ones followed by the
\* default kinds they do not mention; none for an empty list
EffectiveImports(ci) ==
  IF ~ci.present THEN DEFAULT_IMPORTS
  ELSE IF Len(ci.list) = 0 THEN ci.list
  ELSE ci.list \o SelectSeq(DEFAULT_IMPORTS,
                            LAMBDA k : \A i \in DOMAIN ci.list : ci.list[i] # k)

\* the value merged holds for a name read from the file at `path`
ImportEntry(path) ==
  [raw |-> path, baseDir |-> path, source |-> [kind |-> "import", path |-> path]]

\* the value merged holds for a name of config.mcpServers
LocalEntry ==
  [raw |-> ConfigPath, baseDir |-> ConfigPath,
   source |-> [kind |-> "local", path |-> ConfigPath]]

\* variant: a later file replaces the entry of an earlier one
MergeEntryLastWins(m, name, path) == MapSet(m, name, ImportEntry(path))

\* `if (merged.has(name)) continue; merged.set(name, {...})`
MergeEntry(m, name, path) ==
  IF name \in DOMAIN m THEN m ELSE MapSet(m, name, ImportEntry(path))

\* `for (const [name, rawEntry] of entries)`; names are the keys of one file
RECURSIVE MergeEntries(_, _, _)
MergeEntries(m, names, path) ==
  IF names = {} THEN m
  ELSE LET n == CHOOSE x \in names : TRUE IN
       MergeEntries(MergeEntry(m, n, path), names \ {n}, path)

\* `for (const candidate of candidates)`: readExternalEntries gives the
\* entries of a file, none for a file that does not exist (a file without
\* entries stands for a missing one)
RECURSIVE MergeCandidates(_, _, _)
MergeCandidates(m, paths, files) ==
  IF paths = <<>> THEN m
  ELSE MergeCandidates(MergeEntries(m, files[Head(paths)], Head(paths)),
                       Tail(paths), files)

\* `for (const importKind of imports)`
RECURSIVE MergeImports(_, _, _)
MergeImports(m, kinds, files) ==
  IF kinds = <<>> THEN m
  ELSE MergeImports(MergeCandidates(m, PathsForImport(Head(kinds)), files),
                    Tail(kinds), files)

\* `for (const [name, entryRaw] of Object.entries(config.mcpServers))`:
\* merged.set replaces what an import gave
OverlayLocal(m, locals) ==
  [n \in DOMAIN m \cup locals |-> IF n \in locals THEN LocalEntry ELSE m[n]]

\* the definitions loadServerDefinitions returns, by name
LoadServerDefinitions(ci, locals, files) ==
  OverlayLocal(MergeImports(<<>>, EffectiveImports(ci), files), locals)

\* a load that starts: the config and the files are read, merged is empty
\* (read, history: the import kinds whose candidates were read, in order)
NewLoad(ci, locals, files) ==
  [pc |-> "imports", imports |-> ci, locals |-> locals, files |-> files,
   queue |-> EffectiveImports(ci), merged |-> <<>>, read |-> <<>>]

\* one iteration of the loop over the imports
ReadImport ==
  /\ load.pc = "imports" /\ load.queue # <<>>
  /\ load' = [load EXCEPT
        !.merged = MergeCandidates(@, PathsForImport(Head(load.queue)), load.files),
        !.queue = Tail(@),
        !.read = Append(@, Head(load.queue))]
  /\ UNCHANGED <<runtimeVars, child, facade, cfg>>

\* the loop over config.mcpServers, and the return
OverlayLocalEntries ==
  /\ load.pc = "imports" /\ load.queue = <<>>
  /\ load' = [load EXCEPT !.merged = OverlayLocal(@, load.locals), !.pc = "done"]
  /\ UNCHANGED <<runtimeVars, child, facade, cfg>>

InitLoad ==
  /\ InitRuntime /\ child = NoChild /\ facade = NoFacade /\ cfg = NoConfig
  /\ definitions = <<>> /\ env = TRUE
  /\ \E ci \in ConfiguredImports, locals \in SUBSET ServerNames,
        files \in [AllPaths -> SUBSET ServerNames] :
        load = NewLoad(ci, locals, files)

NextLoad == ReadImport \/ OverlayLocalEntries

SpecLoad == InitLoad /\ [][NextLoad]_vars

\* ------------------------------------------------------- readConfigFile
\* bound: how many times the configuration is loaded in one run
MaxLoads == 3

\* a config file is missing, holds a valid configuration, is not JSON, or
\* is JSON that RawConfigSchema rejects
FileStates == {"missing", "valid", "syntax", "schema"}

\* the path resolveConfigPath gives when none is named, and a path named by
\* the configPath option or MCPORTER_CONFIG
ImplicitPath == "config/mcporter.json"
ExplicitPath == "named.json"
ConfigPaths == {ImplicitPath, ExplicitPath}

\* what `fs.readFile` followed by `RawConfigSchema.parse(JSON.parse(buffer))`
\* throws on a file in state st ("none": nothing)
ReadError(st) ==
  CASE st = "missing" -> "ENOENT"
    [] st = "syntax" -> "SyntaxError"
    [] st = "schema" -> "ZodError"
    [] OTHER -> "none"

\* isConfigRecoverable: ENOENT, or `error instanceof SyntaxError`
IsConfigRecoverable(error) == error \in {"ENOENT", "SyntaxError"}

\* warnConfigFallback: one console.warn per path of warnedConfigPaths
WarnConfigFallback(c, path) ==
  IF path \in c.warned THEN c
  ELSE [c EXCEPT !.warned = @ \cup {path}, !.warnings[path] = @ + 1,
                 !.warnedNow = TRUE]

\* the module is loaded: warnedConfigPaths is empty (loads, seen, warnedNow,
\* unparsable are history: the loads made, the state the last load found its
\* file in, whether it warned, and how many loads found the implicit file
\* present but not parsable)
NewConfig(files) ==
  [pc |-> "idle", files |-> files, explicit |-> FALSE, path |-> ImplicitPath,
   warned |-> {}, warnings |-> [p \in ConfigPaths |-> 0], result |-> "none",
   loads |-> 0, seen |-> "none", warnedNow |-> FALSE, unparsable |-> 0]

\* a load is over with `result`
Loaded(c, result) ==
  [c EXCEPT !.pc = "idle", !.result = result, !.loads = @ + 1,
            !.seen = c.files[c.path],
            !.unparsable = IF ~c.explicit /\ c.files[c.path] \in {"syntax", "schema"}
                           THEN @ + 1 ELSE @]

\* loadRawConfig: resolveConfigPath, then readConfigFile up to
\* `await pathExistsAsync(configPath)`
LoadRawConfig(explicit) ==
  LET path == IF explicit THEN ExplicitPath ELSE ImplicitPath
      c == [cfg EXCEPT !.explicit = explicit, !.path = path, !.warnedNow = FALSE] IN
  /\ cfg.pc = "idle" /\ cfg.loads < MaxLoads
  /\ cfg' = IF ~explicit /\ cfg.files[path] = "missing"
            THEN Loaded(c, "empty")
            ELSE [c EXCEPT !.pc = "reading"]
  /\ UNCHANGED <<runtimeVars, child, facade, load>>

\* readConfigFile: the try block and its catch
ReadConfigFile ==
  LET error == ReadError(cfg.files[cfg.path]) IN
  /\ cfg.pc = "reading"
  /\ cfg' = IF error = "none" THEN Loaded(cfg, "config")
            ELSE IF ~cfg.explicit /\ IsConfigRecoverable(error)
            THEN Loaded(WarnConfigFallback(cfg, cfg.path), "empty")
            ELSE Loaded(cfg, "throws")
  /\ UNCHANGED <<runtimeVars, child, facade, load>>

\* between two loads somebody writes, repairs or removes a config file
FileChanges(path, st) ==
  /\ cfg.pc = "idle" /\ cfg.files[path] # st
  /\ cfg' = [cfg EXCEPT !.files[path] = st]
  /\ UNCHANGED <<runtimeVars, child, facade, load>>

InitConfig ==
  /\ InitRuntime /\ child = NoChild /\ facade = NoFacade /\ load = NoLoad
  /\ definitions = <<>> /\ env = TRUE
  /\ \E files \in [ConfigPaths -> FileStates] : cfg = NewConfig(files)

NextConfig ==
  \/ \E explicit \in BOOLEAN : LoadRawConfig(explicit)
  \/ ReadConfigFile
  \/ \E path \in ConfigPaths, st \in FileStates : FileChanges(path, st)

SpecConfig == InitConfig /\ [][NextConfig]_vars

\* ------------------------------------ config add / config remove
\* The config file as `mcporter config add` and `config remove` read and
\* write it: cfg.file is its content (the `imports` key, present or not,
\* and the names under mcpServers), cfg.read the content the last command
\* had read, cfg.last the last command that wrote ("none" at first).
MaxEdits == 2

RawConfigs == [imports : ConfiguredImports, servers : SUBSET ServerNames]

\* cloneConfig: a copy of mcpServers, and a copy of imports or [] without
\* the key
CloneConfig(config) ==
  [servers |-> config.servers,
   imports |-> IF config.imports.present THEN config.imports
               ELSE [present |-> TRUE, list |-> <<>>]]

\* writeRawConfig then a later read: JSON.stringify keeps every key that is
\* defined, an empty array included
WriteRawConfig(c, config, cmd) ==
  [c EXCEPT !.read = c.file, !.file = config, !.last = cmd, !.edits = @ + 1]

\* handleAddCommand without --dry-run: nextConfig.mcpServers[name] = entry
HandleAddCommand(name) ==
  /\ cfg.pc = "file" /\ cfg.edits < MaxEdits
  /\ LET nextConfig == CloneConfig(cfg.file) IN
     cfg' = WriteRawConfig(cfg, [nextConfig EXCEPT !.servers = @ \cup {name}],
                           <<"add", name>>)
  /\ UNCHANGED <<runtimeVars, child, facade, load>>

\* handleRemoveCommand: a name the file does not hold is a usage error
HandleRemoveCommand(name) ==
  /\ cfg.pc = "file" /\ cfg.edits < MaxEdits
  /\ name \in cfg.file.servers
  /\ LET nextConfig == CloneConfig(cfg.file) IN
     cfg' = WriteRawConfig(cfg, [nextConfig EXCEPT !.servers = @ \ {name}],
                           <<"remove", name>>)
  /\ UNCHANGED <<runtimeVars, child, facade, load>>

InitEdit ==
  /\ InitRuntime /\ child = NoChild /\ facade = NoFacade /\ load = NoLoad
  /\ definitions = <<>> /\ env = TRUE
  /\ \E config \in RawConfigs :
        cfg = [pc |-> "file", file |-> config, read |-> config,
               last |-> <<"none", "none">>, edits |-> 0]

NextEdit ==
  \/ \E name \in ServerNames : HandleAddCommand(name)
  \/ \E name \in ServerNames : HandleRemoveCommand(name)

SpecEdit == InitEdit /\ [][NextEdit]_vars

\* ------------------------------------------------------------- properties
Cached(p) == UseCache(conns[p].opts)

\* the callers that are in, or have returned from, a cached connect(n)
Holds(t) ==
  threads[t].op = "connect" /\ threads[t].pc \in {"await", "done"} /\ threads[t].conn # 0

\* C1: cached connects to one name that overlap share one creation: while the
\* entry of a name has not been deleted from the pool, there is one cached
\* connection for that name, it is the pool's entry, and every caller of
\* connect(name) awaits or has received that very connection.
C1_SharedCreation ==
  /\ \A p, q \in ConnIds :
        (/\ Cached(p) /\ Cached(q) /\ conns[p].name = conns[q].name
         /\ ~conns[p].evicted /\ ~conns[q].evicted) => p = q
  /\ \A t \in Threads :
        (Holds(t) /\ ~conns[threads[t].conn].evicted)
           => /\ threads[t].name \in DOMAIN clients
              /\ clients[threads[t].name] = threads[t].conn

\* two callers issued connect(name) while the creation was in flight and both
\* received the same connection
C1_Witness ==
  /\ nconn = 1
  /\ \A t \in {1, 2} : Holds(t) /\ threads[t].pc = "done" /\ threads[t].res = "ok"
  /\ threads[1].conn = threads[2].conn
  /\ threads[1].role = "creator" /\ threads[2].role = "sharer"

\* C2: a pooled creation that fails is a failure for every caller sharing it,
\* and when a caller observes the failure the pool no longer holds that
\* connection; the pool never holds a failure its creator has observed, and a
\* failed creation stays failed (the pool does not retry it).
C2_FailureEvicts ==
  /\ \A t \in Threads :
        (Holds(t) /\ threads[t].pc = "done")
           => /\ threads[t].res = "failed" <=> conns[threads[t].conn].pc = "failed"
              /\ threads[t].res = "failed"
                    => threads[t].conn \notin Range(clients)
  /\ \A n \in DOMAIN clients :
        ~(conns[clients[n]].pc = "failed" /\ conns[clients[n]].handled)

\* the creator and a sharer have both observed the failure of one creation and
\* the name is free for a fresh creation
C2_Witness ==
  /\ \A t \in {1, 2} : Holds(t) /\ threads[t].pc = "done" /\ threads[t].res = "failed"
  /\ threads[1].conn = threads[2].conn
  /\ threads[2].role = "sharer"
  /\ threads[1].name \notin DOMAIN clients

\* C3: when close() is over, returned or raised, no entry that was in the pool
\* when it was called is left in the pool
C3_CloseAllDrains ==
  \A t \in Threads :
    (threads[t].op = "closeAll" /\ threads[t].pc = "done")
       => \A n \in DOMAIN clients : clients[n] > threads[t].mark

\* C4: an established pooled connection that no close has started to tear
\* down is the pool's entry for its name
C4_EstablishedStays ==
  \A p \in ConnIds :
    (Cached(p) /\ conns[p].pc = "connected" /\ conns[p].closeLog = <<>>)
       => /\ conns[p].name \in DOMAIN clients
          /\ clients[conns[p].name] = p

NoOAuth(p) == conns[p].opts.maxOAuthAttempts = {0}

\* C5: a connect made with maxOAuthAttempts = 0 has no OAuth session, is never
\* creating one, waiting for an authorization code or finishing an
\* authorization, keeps the definition it was called with, and is not the
\* writer of the registry entry
C5_NoOAuthWhenDisabled ==
  \A p \in ConnIds :
    NoOAuth(p)
       => /\ conns[p].session = "none"
          /\ conns[p].pc \notin {"session", "waitCode", "finishAuth"}
          /\ conns[p].active = conns[p].def0
          /\ lastWriter[conns[p].name] # p
          /\ conns[p].attempt = 0

\* a connect with maxOAuthAttempts = 0 to an ad-hoc HTTP definition was
\* answered Unauthorized on both transports and left the registry as it was
C5_Witness ==
  \E p \in ConnIds :
    /\ NoOAuth(p)
    /\ conns[p].def0 = AdhocX
    /\ conns[p].pc = "failed" /\ conns[p].err = "UnauthorizedError"
    /\ definitions["X"] = AdhocX

Lists(t) == threads[t].op = "list" /\ threads[t].conn # 0

\* C6: listTools(name, {autoAuthorize: false}) connects with skipCache = true
\* and maxOAuthAttempts = 0; once it holds the connection, the close of the
\* client comes first, the close of the transport second and the close of the
\* session, when there is one, third, whatever the listing and the earlier
\* closes ended in, and it returns or rethrows only after them
C6_ListDisposes ==
  \A t \in Threads :
    Lists(t) =>
      LET c == conns[threads[t].conn] IN
      /\ c.opts.skipCache = TRUE /\ c.opts.maxOAuthAttempts = {0}
      /\ threads[t].pc \in {"listing", "tClient"} => c.closeLog = <<>>
      /\ threads[t].pc = "tTransport" => c.closeLog = <<"client">>
      /\ threads[t].pc = "tSession" => c.closeLog = <<"client", "transport">>
      /\ (threads[t].pc = "done" /\ threads[t].res \in {"ok", "listfail"})
            => /\ c.closeLog = IF c.session = "none" THEN <<"client", "transport">>
                               ELSE <<"client", "transport", "session">>
               /\ c.tstate = "closed" /\ c.session # "open"

\* the listing threw, a close failed, and the three steps were still made
C6_Witness ==
  \E t \in Threads :
    /\ Lists(t) /\ threads[t].pc = "done" /\ threads[t].res = "listfail"
    /\ conns[threads[t].conn].tdFail
    /\ conns[threads[t].conn].closeLog = <<"client", "transport">>

\* C7: a connect with skipCache gets a connection of its own, which is never
\* in the pool, and no step of such a call changes the pool
C7_SkipCacheLeavesPool ==
  /\ [](\A p \in ConnIds : conns[p].opts.skipCache = TRUE => p \notin Range(clients))
  /\ [](\A t \in Threads : Lists(t) => threads[t].role = "owner")
  /\ [][\A t \in Threads :
          (threads'[t] # threads[t] /\ threads'[t].op = "list") => clients' = clients]_vars

\* a connect with skipCache holds its own connection while the pool holds
\* another one for the same name
C7_Witness ==
  \E t \in Threads :
    /\ Lists(t) /\ threads[t].pc = "listing"
    /\ threads[t].name \in DOMAIN clients
    /\ clients[threads[t].name] # threads[t].conn
    /\ conns[clients[threads[t].name]].pc = "connected"

\* the connect has been answered Unauthorized and its handler has run
ObservedUnauthorized(c) ==
  \/ c.pass >= 2
  \/ IsUnauthorizedError(c.primaryError)
  \/ c.pc = "failed" /\ IsUnauthorizedError(c.err)

\* d is def with auth = oauth, a token cache directory and nothing else changed
Successor(d, def) ==
  /\ d.auth = "oauth"
  /\ d.tokenCacheDir # NoDir /\ d.tokenCacheDir # ""
  /\ [d EXCEPT !.auth = def.auth, !.tokenCacheDir = def.tokenCacheDir] = def

\* C8, as stated: whenever a connect to an ad-hoc HTTP definition without
\* OAuth has observed Unauthorized, and the name was not registered again, the
\* registry holds the successor
C8_AnyConnectPromotes ==
  \A p \in ConnIds :
    (Eligible(conns[p].def0) /\ ObservedUnauthorized(conns[p]) /\ regs = 0)
       => Successor(definitions[conns[p].name], conns[p].def0)

\* C8, amended: the same for the connects whose maxOAuthAttempts is not 0;
\* the successor is the definition the connect goes on with, it is the
\* registry entry while the name was not registered again, and for as long
\* as this connect is the last writer of the entry, also once the connect
\* has failed
C8_PromotionPersists ==
  \A p \in ConnIds :
    (Eligible(conns[p].def0) /\ ObservedUnauthorized(conns[p]) /\ ~NoOAuth(p))
       => /\ Successor(conns[p].active, conns[p].def0)
          /\ regs = 0 => Successor(definitions[conns[p].name], conns[p].def0)
          /\ lastWriter[conns[p].name] = p
                => definitions[conns[p].name] = conns[p].active

\* a promoted connect has failed and the successor is still the registry entry
C8_Witness ==
  \E p \in ConnIds :
    /\ conns[p].def0 = AdhocX /\ ~NoOAuth(p)
    /\ conns[p].pc = "failed" /\ conns[p].pass = 2
    /\ definitions["X"] = [AdhocX EXCEPT !.auth = "oauth",
                                         !.tokenCacheDir = DefaultTokenCacheDir("X")]

\* C9: a connect called with a definition that is not ad-hoc, not HTTP or
\* already oauth keeps that definition, and a registry entry changes only in
\* registerDefinition or in a step of a connect whose definition was eligible
C9_IneligibleNeverPromotes ==
  /\ [](\A p \in ConnIds :
          ~Eligible(conns[p].def0)
             => conns[p].active = conns[p].def0 /\ lastWriter[conns[p].name] # p)
  /\ [][definitions' # definitions
          => \/ regs' # regs
             \/ \E p \in ConnIds :
                  /\ Eligible(conns[p].def0) /\ conns'[p] # conns[p]
                  /\ definitions' = MapSet(definitions, conns[p].name, conns'[p].active)]_vars

\* connects to a configured HTTP definition and to one with auth = oauth were
\* answered Unauthorized to the end
C9_Witness ==
  \E p \in ConnIds :
    /\ conns[p].def0 \in {LocalX, ImportX}
    /\ conns[p].pc = "failed" /\ conns[p].err = "UnauthorizedError"
    /\ conns[p].def0 = ImportX => conns[p].attempt > DefaultMaxOAuthAttempts
    /\ definitions["X"] = conns[p].def0

\* C10: a cached connect to an ad-hoc HTTP definition that was promoted and
\* then connected without a further Unauthorized ending its streamable
\* attempt, before any close: it runs with the successor and an open session,
\* it is the pool's entry unless the entry was deleted since, the registry
\* holds the successor while this connect is its last writer, and the
\* caller's one call returns this connection
C10_PromotedConnectCompletes ==
  \A p \in ConnIds :
    (/\ Cached(p) /\ Eligible(conns[p].def0) /\ conns[p].pass >= 2
     /\ conns[p].pc = "connected" /\ conns[p].closeLog = <<>>
     /\ ~IsUnauthorizedError(conns[p].primaryError))
       => /\ Successor(conns[p].active, conns[p].def0)
          /\ conns[p].session = "open" /\ conns[p].tstate = "open"
          /\ conns[p].pass = 2
          /\ ~conns[p].evicted
                => conns[p].name \in DOMAIN clients /\ clients[conns[p].name] = p
          /\ lastWriter[conns[p].name] = p
                => definitions[conns[p].name] = conns[p].active
          /\ \A t \in Threads :
                (Holds(t) /\ threads[t].conn = p /\ threads[t].pc = "done")
                   => threads[t].res = "ok"

\* the one connect was answered Unauthorized, promoted, went through the
\* authorization once and returned connected
C10_Witness ==
  /\ nconn = 1 /\ regs = 0
  /\ Holds(1) /\ threads[1].pc = "done" /\ threads[1].res = "ok"
  /\ threads[1].role = "creator" /\ threads[1].conn = 1
  /\ conns[1].pc = "connected" /\ conns[1].pass = 2 /\ conns[1].attempt = 1
  /\ conns[1].tkind = "streamable"
  /\ clients = ("X" :> 1)
  /\ definitions["X"] = conns[1].active /\ conns[1].active.auth = "oauth"

\* C11: a connect that fails after its OAuth flow met a transport without
\* finishAuth fails with an error of kind OAuthUnsupportedByTransport
C11_UnsupportedErrorKind ==
  \A p \in ConnIds :
    (conns[p].pc = "failed" /\ conns[p].unsupported)
       => conns[p].err = "OAuthUnsupportedByTransport"

\* C12: a close(name) or close() that is over has returned without an error
C12_CloseNeverRaises ==
  \A t \in Threads :
    (threads[t].op \in {"close", "closeAll"} /\ threads[t].pc = "done")
       => threads[t].res = "ok"

\* the caller has returned from a close(name) that found an entry
Closed(t) ==
  /\ threads[t].op = "close" /\ threads[t].pc = "done"
  /\ threads[t].res = "ok" /\ threads[t].conn # 0

\* C13: once close(X) has returned, the transport and the session of the
\* connection it closed are closed and an entry the pool holds for X is a
\* connection created after the return; a cached connect that finds no entry
\* creates a connection from the registry entry and the options alone
C13_CloseThenConnectIsCold ==
  /\ [](\A t \in Threads :
          Closed(t) =>
            /\ conns[threads[t].conn].tstate = "closed"
            /\ conns[threads[t].conn].session # "open"
            /\ conns[threads[t].conn].closeLog[1] = "client"
            /\ threads[t].name \in DOMAIN clients
                  => clients[threads[t].name] > threads[t].mark)
  /\ [][\A t \in Threads :
          (/\ Free(t) /\ threads'[t].pc = "await"
           /\ threads'[t].op = "connect" /\ threads'[t].role = "creator")
             => /\ threads'[t].conn \notin ConnIds
                /\ clients' = MapSet(clients, threads'[t].name, threads'[t].conn)
                /\ conns'[threads'[t].conn] =
                      NewConn(definitions[threads'[t].name], CachedOpts)]_vars

\* close(X) has returned after closing a connection that held an OAuth
\* session, and the pool has no entry for X
C13_Witness ==
  \E t \in Threads :
    /\ Closed(t) /\ threads[t].name = "X"
    /\ conns[threads[t].conn].session = "closed"
    /\ conns[threads[t].conn].closeLog = <<"client", "transport", "session">>
    /\ "X" \notin DOMAIN clients

\* how often step x was made on a connection
TimesClosed(c, x) == Cardinality({i \in DOMAIN c.closeLog : c.closeLog[i] = x})

\* C14: a pooled connection that no two calls of close held at once has had
\* its client and its transport closed at most once, and exactly once when a
\* close(name) that found it has returned; a close(name) that finds no entry
\* for the name, and a close() on an empty pool, return at once and close
\* nothing
C14_ClosedExactlyOnce ==
  /\ [](\A p \in ConnIds :
          (Cached(p) /\ ~conns[p].overlap)
             => /\ TimesClosed(conns[p], "client") <= 1
                /\ TimesClosed(conns[p], "transport") <= 1)
  /\ [](\A t \in Threads :
          (Closed(t) /\ ~conns[threads[t].conn].overlap)
             => TimesClosed(conns[threads[t].conn], "transport") = 1)
  /\ [][\A t \in Threads :
          (/\ Free(t) /\ threads'[t] # threads[t]
           /\ \/ threads'[t].op = "close" /\ threads'[t].name \notin DOMAIN clients
              \/ threads'[t].op = "closeAll" /\ clients = <<>>)
             => /\ threads'[t].pc = "done" /\ threads'[t].conn = 0
                /\ \A p \in DOMAIN conns' : conns'[p].closeLog = conns[p].closeLog]_vars

\* two callers shared one connection to Y, a close("Y") closed it once, and
\* a further close("Y") found no entry
C14_Witness ==
  /\ nconn = 1
  /\ threads[1].op = "close" /\ threads[1].name = "Y"
  /\ threads[1].pc = "done" /\ threads[1].conn = 0
  /\ Holds(2) /\ threads[2].role = "sharer" /\ threads[2].res = "ok"
  /\ threads[2].conn = 1 /\ conns[1].name = "Y"
  /\ conns[1].closeLog = <<"client", "transport">>
  /\ "Y" \notin DOMAIN clients

\* C15: when closeTransportAndWait has returned, the child is not alive,
\* unless SIGKILL could not end it, in which case SIGKILL was sent and the
\* warning was logged once
C15_ChildReaped ==
  child.pc = "returned"
     => \/ ~child.alive
        \/ child.unkillable /\ Sent(child, "SIGKILL") /\ child.warned = 1

\* the close of a child that ignores the end of its stdin and SIGTERM has
\* returned after SIGTERM and SIGKILL, and the child is gone
C15_Witness ==
  /\ child.pc = "returned" /\ ~child.alive
  /\ child.ignoresStdin /\ child.ignoresTerm /\ ~child.unkillable
  /\ child.sent = <<"SIGTERM", "SIGKILL">>
  /\ child.warned = 0

\* patchedClose has returned
PatchedCloseOver ==
  child.pc \in {"rWait", "collect300", "tree300", "collect700", "tree700",
               "collectKill", "tree500", "returned"}

\* C16: once the patched close has returned, the buffered stderr was emitted
\* exactly if the child had written some and either had exited with code 1
\* by then or MCPORTER_STDIO_LOGS=1
C16_StderrEmitted ==
  PatchedCloseOver
     => (child.printed <=>
           (child.chunks /\ (child.logsEnabled \/ child.codeAtClose = "1")))

\* C17 (progress): once the timer of a call has gone off and close(server)
\* was invoked, the call fails with its timeout error
C17_TimeoutFails == (facade.pc = "closing") ~> (facade.pc = "failed")

\* C17 (order and pool): a call fails with the timeout error only after
\* close(server) was invoked, the pool has no entry for the server then, and
\* the next call to it creates a connection
C17_TimeoutClosesFirst ==
  /\ [](facade.kind = "call" /\ facade.res = "timeout"
          => facade.closed /\ facade.name \notin DOMAIN clients)
  /\ [][(/\ facade.kind = "call" /\ facade.res = "timeout"
         /\ facade'.pc = "waiting" /\ facade'.name = facade.name)
        => /\ nconn' = nconn + 1
           /\ threads'[facade'.t].role \in {"creator", "owner"}
           /\ threads'[facade'.t].conn = nconn']_vars

\* C18: a listing fails with the timeout error only after close(name) was
\* invoked
C18_ListTimeoutCloses ==
  facade.kind = "list" /\ facade.res = "timeout" => facade.closed

\* the connect p has failed on an unset variable of its header template
MissingVar(c) == c.pc = "failed" /\ c.err = "MissingEnvVar"

\* C19: a connect that finds the variable of its header template unset when
\* it first resolves the headers fails with the missing-variable error with
\* no transport built and no attempt made; once its failure was handled the
\* pool does not hold it; and a connect fails this way only in a step taken
\* while the variable is unset, whatever it was when the definition was made
C19_MissingVarFailsFirst ==
  /\ [](\A p \in ConnIds : (MissingVar(conns[p]) /\ conns[p].pass = 1)
          => /\ conns[p].def0.hdr
             /\ conns[p].tkind = "none" /\ conns[p].tstate = "none"
             /\ conns[p].attempt = 0 /\ conns[p].closeLog = <<>>
             /\ conns[p].handled => p \notin Range(clients))
  /\ [][\A p \in DOMAIN conns' :
           (MissingVar(conns'[p]) /\ (p \in ConnIds => ~MissingVar(conns[p])))
              => ~env]_vars
  /\ [][\A p \in DOMAIN conns' :
           (/\ p \notin ConnIds \/ conns[p].pc = "session"
            /\ conns'[p].def0.hdr /\ conns'[p].pass = 1
            /\ conns'[p].pc # "session" /\ ~MissingVar(conns'[p]))
              => env \/ conns'[p].err = "OAuthSessionError"]_vars

\* the second connect to X has failed on the unset variable, after a first
\* connect of the same definition, and the caller has seen the failure
C19_Witness ==
  /\ nconn = 2 /\ 2 \in ConnIds
  /\ MissingVar(conns[2]) /\ conns[2].pass = 1 /\ conns[2].handled
  /\ conns[2].def0 = AdhocX
  /\ threads[1].conn = 2 /\ threads[1].res = "failed"
  /\ "X" \notin DOMAIN clients

\* the names the files of an import kind export
Exports(kind) ==
  UNION {load.files[PathsForImport(kind)[i]] : i \in 1..MaxPaths}

\* the first file, in effective import order and path order, that has name n
FirstImport(n) ==
  LET eff == EffectiveImports(load.imports)
      i == Min({k \in DOMAIN eff : n \in Exports(eff[k])})
      j == Min({k \in 1..MaxPaths : n \in load.files[PathsForImport(eff[i])[k]]})
  IN PathsForImport(eff[i])[j]

\* no two import kinds export the same name
NoSharedName ==
  \A k1, k2 \in ImportKinds : k1 # k2 => Exports(k1) \cap Exports(k2) = {}

\* the lists that are permutations of the sequence s
ListPermutations(s) ==
  {[i \in DOMAIN s |-> s[f[i]]] :
      f \in {g \in [DOMAIN s -> DOMAIN s] : \A i, j \in DOMAIN s : g[i] = g[j] => i = j}}

\* C20: in the loaded set, a name of the local config has the local entry
\* with source kind local; a name only imports define has the entry of the
\* first import, in effective order, that contains it; and when no two
\* imports export the same name, every permutation of the import list loads
\* the same set
C20_LocalThenFirstImport ==
  load.pc = "done" =>
    LET eff == EffectiveImports(load.imports) IN
    /\ DOMAIN load.merged =
         load.locals \cup UNION {Exports(eff[k]) : k \in DOMAIN eff}
    /\ \A n \in DOMAIN load.merged :
         IF n \in load.locals
         THEN load.merged[n] = LocalEntry /\ load.merged[n].source.kind = "local"
         ELSE load.merged[n] = ImportEntry(FirstImport(n))
    /\ NoSharedName =>
         \A q \in ListPermutations(load.imports.list) :
            LoadServerDefinitions([load.imports EXCEPT !.list = q],
                                  load.locals, load.files) = load.merged

\* a load is over whose import list names two kinds, with no name shared by
\* two imports, a local name that an import defines too, and a name that only
\* an import defines
C20_Witness ==
  /\ load.pc = "done"
  /\ Len(load.imports.list) = 2 /\ load.imports.list[1] # load.imports.list[2]
  /\ NoSharedName
  /\ \E n \in load.locals : \E k \in ImportKinds : n \in Exports(k)
  /\ \E n \in DOMAIN load.merged : n \notin load.locals

\* a load is over in which two imports export a name the local config does
\* not define
C20_SharedNameWitness ==
  /\ load.pc = "done"
  /\ load.imports.list = <<"codex", "cursor">>
  /\ \E n \in ServerNames \ load.locals :
        n \in Exports("codex") \cap Exports("cursor")

\* the candidate files of an import kind that exist
Existing(kind) == {i \in 1..MaxPaths : load.files[PathsForImport(kind)[i]] # {}}

\* C21: every entry an import contributed comes from the first candidate
\* file of its kind that exists
C21_FirstCandidateOnly ==
  load.pc = "done" =>
    \A n \in DOMAIN load.merged :
       load.merged[n].source.kind = "import" =>
          LET path == load.merged[n].source.path IN
          path[2] = Min(Existing(path[1]))

\* the position of an import kind in the default order
DefaultIndex(kind) == CHOOSE i \in DOMAIN DEFAULT_IMPORTS : DEFAULT_IMPORTS[i] = kind

\* C22: the imports read are none when `imports` is present and empty, the
\* default order when it is absent, and otherwise the configured list
\* followed by the default kinds it does not mention, in default order
C22_EffectiveOrder ==
  load.pc = "done" =>
    LET ci == load.imports
        n == Len(ci.list)
        listed == {ci.list[i] : i \in DOMAIN ci.list} IN
    IF ~ci.present THEN load.read = DEFAULT_IMPORTS
    ELSE IF n = 0 THEN load.read = <<>>
    ELSE /\ Len(load.read) = n + Cardinality(ImportKinds \ listed)
         /\ \A i \in 1..n : load.read[i] = ci.list[i]
         /\ {load.read[i] : i \in (n + 1)..Len(load.read)} = ImportKinds \ listed
         /\ \A i, j \in (n + 1)..Len(load.read) :
               i < j => DefaultIndex(load.read[i]) < DefaultIndex(load.read[j])

\* a load with `imports: ["codex"]` is over: codex was read first, then the
\* two default kinds the list does not mention
C22_Witness ==
  /\ load.pc = "done"
  /\ load.imports.present /\ load.imports.list = <<"codex">>
  /\ load.read = <<"codex", "cursor", "claude-code">>

\* a load has just ended
JustLoaded == cfg.pc = "idle" /\ cfg.loads > 0

\* C23: a load of the implicit config file gives the empty configuration
\* when the file is missing, with no warning, and when it does not parse; a
\* load of a named file that is missing or does not parse fails
C23_ImplicitFallsBack ==
  JustLoaded =>
    IF cfg.explicit
    THEN cfg.seen \in {"missing", "syntax", "schema"} => cfg.result = "throws"
    ELSE /\ cfg.seen = "missing" => cfg.result = "empty" /\ ~cfg.warnedNow
         /\ cfg.seen \in {"syntax", "schema"} => cfg.result = "empty"

\* C24: once a load has found the implicit config file present but not
\* parsable, exactly one warning names its path, however many loads follow
C24_WarnsOnce ==
  (cfg.pc = "idle" /\ cfg.unparsable > 0) => cfg.warnings[ImplicitPath] = 1

\* the step builds a transport of this kind for connect p
BuildsTransport(p, kind) ==
  /\ conns'[p].tkind = kind /\ conns'[p].tstate = "open"
  /\ (p \notin ConnIds \/ conns[p].tkind # kind \/ conns[p].tstate # "open")

\* C25: in every connect to an HTTP definition an SSE transport is only built
\* by the pass whose streamable attempt has just failed and had its transport
\* closed; no pass, the one after a promotion included, starts with SSE
C25_StreamableBeforeSse ==
  [][\A p \in DOMAIN conns' :
       BuildsTransport(p, "sse") =>
         /\ p \in ConnIds
         /\ conns[p].pc = "primaryCatch" /\ conns[p].tkind = "streamable"
         /\ conns[p].tstate = "closed" /\ conns[p].err # "none"
         /\ conns'[p].pass = conns[p].pass
         /\ conns'[p].primaryError = conns[p].err]_vars

\* an SSE attempt is under way in the pass that followed a promotion
C25_Witness ==
  \E p \in ConnIds :
    /\ conns[p].pc = "sse" /\ conns[p].pass = 2
    /\ conns[p].active.auth = "oauth" /\ conns[p].def0.auth # "oauth"

\* C26: an attempt that ended in Unauthorized for a definition that is not
\* eligible for promotion makes the connect fail with that error; no other
\* transport is tried
C26_IneligibleUnauthorizedFails ==
  [][\A p \in ConnIds :
       ( /\ conns[p].pc \in {"primaryCatch", "sseCatch"}
         /\ IsUnauthorizedError(conns[p].err)
         /\ ~Eligible(conns[p].active)
         /\ p \in DOMAIN conns' /\ conns'[p] # conns[p] )
       => conns'[p].pc = "failed" /\ conns'[p].err = conns[p].err]_vars


\* C27: a streamable attempt that failed with an error that is not
\* Unauthorized has its transport closed and is followed by an SSE attempt;
\* an SSE attempt that failed with an error that is not Unauthorized has its
\* transport closed and makes the connect fail with the error of the SSE
\* attempt
C27_FallbackThenSseError ==
  [][\A p \in ConnIds :
       LET c == conns[p] IN
       ( /\ c.pc \in {"primaryCatch", "sseCatch"}
         /\ ~IsUnauthorizedError(c.err)
         /\ p \in DOMAIN conns' /\ conns'[p] # c )
       => /\ c.pc = "primaryCatch" =>
               /\ c.tkind = "streamable" /\ c.tstate = "closed"
               /\ BuildsTransport(p, "sse") /\ conns'[p].pc = "sse"
          /\ c.pc = "sseCatch" =>
               /\ c.tkind = "sse"
               /\ conns'[p].pc = "failed" /\ conns'[p].tstate = "closed"
               /\ conns'[p].err = c.err]_vars

\* a connect has failed with the error of its SSE attempt, which is not the
\* error its streamable attempt had failed with
C27_Witness ==
  \E p \in ConnIds :
    /\ conns[p].pc = "failed" /\ conns[p].tkind = "sse" /\ conns[p].tstate = "closed"
    /\ conns[p].err = "ProtocolError" /\ conns[p].primaryError = "NetworkError"

\* the step promotes the definition of connect p: a new pass begins
Promotes(p) ==
  p \in ConnIds /\ p \in DOMAIN conns' /\ conns'[p].pass = conns[p].pass + 1

\* connectWithAuth of connect p has waited for an authorization code in the
\* attempt under way
InAuthRetry(c) == c.attempt > 0 \/ c.pc \in {"waitCode", "finishAuth"}

\* C28: within one connect the definition is promoted at most once, and the
\* promotion comes before any wait for an authorization code or retry of the
\* call: it is made by the first pass, in which no session exists, and a wait
\* needs a session
C28_PromotedOnceBeforeWaits ==
  /\ [](\A p \in ConnIds :
          /\ conns[p].pass <= 2
          /\ InAuthRetry(conns[p]) => conns[p].session # "none"
          /\ (conns[p].pass = 1 /\ Eligible(conns[p].active)) => conns[p].session = "none")
  /\ [][\A p \in ConnIds :
          Promotes(p) => /\ conns[p].pass = 1 /\ conns[p].session = "none"
                         /\ ~InAuthRetry(conns[p])
                         /\ conns'[p].pass = 2]_vars

\* a connect waits for an authorization code in the pass after its promotion
C28_Witness ==
  \E p \in ConnIds :
    /\ conns[p].pass = 2 /\ conns[p].pc = "waitCode"
    /\ conns[p].active.auth = "oauth" /\ Eligible(conns[p].def0)

\* the catch the error of an attempt with this transport goes to
CatchOf(c) == IF c.tkind = "streamable" THEN "primaryCatch" ELSE "sseCatch"

\* C29: with an OAuth session, a connect attempt answered Unauthorized is
\* followed by one wait for the authorization code, one finishAuth and a new
\* attempt with the same transport, maxOAuthAttempts times at most (3 when
\* not given); the Unauthorized answer after that leaves connectWithAuth as
\* its error
C29_AuthRetryLoop ==
  /\ [](\A p \in ConnIds :
          conns[p].pc \in {"waitCode", "finishAuth"} =>
             /\ conns[p].session # "none"
             /\ conns[p].attempt \in 1..MaxAttempts(conns[p].opts)
             /\ IsUnauthorizedError(conns[p].err))
  /\ [][\A p \in ConnIds :
          LET c == conns[p]
              d == conns'[p] IN
          (p \in DOMAIN conns' /\ d.pc # c.pc) =>
            /\ ( /\ c.pc \in {"streamable", "sse"} /\ c.session # "none"
                 /\ d.pc # "connected" /\ IsUnauthorizedError(d.err) ) =>
                   /\ d.attempt = c.attempt + 1
                   /\ IF c.attempt < MaxAttempts(c.opts)
                      THEN d.pc = "waitCode"
                      ELSE d.pc = CatchOf(c)
            /\ c.pc = "waitCode" => d.pc \in {"finishAuth", CatchOf(c)}
            /\ c.pc = "finishAuth" =>
                   \/ d.pc = CatchOf(c)
                   \/ /\ d.pc = c.tkind /\ d.tkind = c.tkind /\ d.tstate = "open"
                      /\ d.attempt = c.attempt /\ d.session = c.session]_vars

\* a connect without maxOAuthAttempts has failed with Unauthorized after its
\* SSE attempt was answered Unauthorized a fourth time, three waits made
C29_Witness ==
  \E p \in ConnIds :
    /\ conns[p].opts.maxOAuthAttempts = {}
    /\ conns[p].pc = "failed" /\ IsUnauthorizedError(conns[p].err)
    /\ conns[p].session # "none"
    /\ conns[p].attempt = DefaultMaxOAuthAttempts + 1

\* C30: patchedClose, after its soft close and the wait of 700 ms, sends
\* SIGTERM exactly when the child is still alive, and after the next wait of
\* 700 ms sends SIGKILL exactly when the child is still alive
C30_SignalsWhenStillAlive ==
  [][/\ (child.pc = "pSoft" /\ child'.pc # "pSoft") =>
          (child.alive <=> /\ child'.pc = "pTerm"
                           /\ child'.sent = Append(child.sent, "SIGTERM"))
     /\ (child.pc = "pTerm" /\ child'.pc # "pTerm") =>
          (child.alive <=> /\ child'.pc = "pKill"
                           /\ child'.sent = Append(child.sent, "SIGKILL"))]_vars

\* C39: when the termination of the process tree has returned without a
\* warning, neither the child nor its descendant is alive; a descendant that
\* outlived a root ended by SIGTERM was sent SIGKILL
C39_NoWarningMeansTreeGone ==
  (child.pc = "returned" /\ child.warned = 0) =>
     /\ ~child.alive
     /\ child.desc # "alive"

\* C31 (progress): a close of the stdio transport that has begun returns
C31_CloseReturns == (child.pc = "pSoft") ~> (child.pc = "returned")

\* C31: when the close has returned after SIGKILL and its last wait with a
\* process of the tree still alive, the warning was logged, once
C31_WarnsWhenStillAlive ==
  /\ child.pc # "none" => child.warned <= 1
  /\ ( /\ child.pc = "returned"
       /\ Sent(child, "SIGKILL")
       /\ (child.alive \/ child.desc = "alive") ) => child.warned = 1

\* C32: no connect attempt runs with a session that the call has closed:
\* neither is a transport built with its provider and connected, nor is its
\* authorization code waited for
C32_NoUseAfterSessionClose ==
  \A p \in ConnIds :
    conns[p].pc \in {"streamable", "sse", "waitCode", "finishAuth"}
       => conns[p].session # "closed"

\* C33: a connect that has failed has left no session open: every session
\* created by the call was closed by the time the failure is reported
C33_FailedConnectClosedSession ==
  \A p \in ConnIds : conns[p].pc = "failed" => conns[p].session # "open"

\* C34: a connect that has failed has left no transport open, be it the
\* stdio transport with its child, the streamable or the SSE transport
C34_FailedConnectClosedTransport ==
  \A p \in ConnIds : conns[p].pc = "failed" => conns[p].tstate # "open"

\* C35: when close() has returned, every connection that a cached connect
\* made before the call had its client, transport and session closed, also
\* when its name was registered again in between
C35_NoOrphanAfterCloseAll ==
  \A t \in Threads :
    (threads[t].op = "closeAll" /\ threads[t].pc = "done" /\ threads[t].res # "raised") =>
       \A p \in ConnIds :
          (p <= threads[t].mark /\ Cached(p) /\ conns[p].pc = "connected")
             => /\ Released(conns[p])
                /\ TimesClosed(conns[p], "client") > 0

\* C36: when a cached connect fails while the pool holds, for its name, a
\* newer connection than the one it installed, its failure leaves that entry
\* in the pool
C36_FailureKeepsNewerEntry ==
  [][\A t \in Threads :
       LET th == threads[t] IN
       ( /\ th.pc = "await" /\ th.role = "creator"
         /\ threads'[t].pc = "done" /\ threads'[t].res = "failed"
         /\ th.name \in DOMAIN clients /\ clients[th.name] # th.conn )
       => th.name \in DOMAIN clients' /\ clients'[th.name] = clients[th.name]]_vars

\* C37: a promotion replaces only the definition it was derived from: when
\* the registry holds another definition under the name by then, the
\* promoting step leaves the registry as it is
C37_PromotionKeepsNewerDefinition ==
  [][\A p \in ConnIds :
       (Promotes(p) /\ definitions[conns[p].name] # conns[p].active)
          => definitions' = definitions]_vars

\* a call of close is tearing connection p down, or has done so
TearingDown(p) ==
  \/ conns[p].closeLog # <<>>
  \/ \E u \in Threads : /\ threads[u].op \in {"close", "closeAll"}
                         /\ threads[u].conn = p
                         /\ threads[u].pc \in {"tClient", "tTransport", "tSession"}

\* C38: a cached connect issued while a close is tearing the connection of
\* that name down is not handed that connection
C38_ConnectNeverReturnsClosing ==
  [][\A t \in Threads :
       ( /\ Free(t)
         /\ threads'[t].pc = "await" /\ threads'[t].op = "connect"
         /\ threads'[t].role = "sharer" )
       => ~TearingDown(threads'[t].conn)]_vars

\* C40: the file written by `config add` or `config remove` differs from
\* the file read in the named entry only, and has the same effective import
\* list; a file without `imports` still loads the default imports
C40_EditKeepsImports ==
  (cfg.pc = "file" /\ cfg.edits > 0) =>
     /\ EffectiveImports(cfg.file.imports) = EffectiveImports(cfg.read.imports)
     /\ cfg.file.servers \ {cfg.last[2]} = cfg.read.servers \ {cfg.last[2]}

====
